---- MODULE Spec2Model ----
(***************************************************************************)
(* Offboarding intake service: the validator, the offboarding table, the   *)
(* connection pool and the process lifecycle of src/unnamed/part_000 (the  *)
(* server with retry, health check and signal handlers), and the startup   *)
(* of src/Backend/server.js.                                               *)
(*                                                                         *)
(* Strings are sequences of one-character strings, so that the regular     *)
(* expressions and length limits of the code are computed, not assumed.    *)
(***************************************************************************)
EXTENDS Integers, Sequences, FiniteSets, TLC

(***************************************************************************)
(* Bounds of the model.                                                    *)
(***************************************************************************)
\* submissions that pass the validator and issue an INSERT in one run
MaxReq == 2

(***************************************************************************)
(* Program constants.                                                      *)
(***************************************************************************)
\* connectWithRetry(maxAttempts = 5, ...)
MaxAttempts == 5
\* poolConfig.max
PoolMax == 20
\* new Pool({...}) of Backend/server.js names no max: the pool's default
DefaultPoolMax == 10
\* employee_name VARCHAR(30), position VARCHAR(30)
NameWidth == 30
\* department VARCHAR(50)
DeptWidth == 50
\* employee_id VARCHAR(7)
EmpIdWidth == 7
\* feedback.length > 500
FeedbackMax == 500
\* acknowledgment.length > 300
AckMax == 300
\* finalSalary < 1000 || finalSalary > 1000000
SalaryMin == 1000
SalaryMax == 1000000
\* bonus < 0 || bonus > 100000
BonusMin == 0
BonusMax == 100000
\* NUMERIC(10, 2): at most 8 digits before the decimal point
NumericLimit == 100000000

(***************************************************************************)
(* Characters.                                                             *)
(***************************************************************************)
Upper == {"A","B","C","D","E","F","G","H","I","J","K","L","M",
          "N","O","P","Q","R","S","T","U","V","W","X","Y","Z"}
Lower == {"a","b","c","d","e","f","g","h","i","j","k","l","m",
          "n","o","p","q","r","s","t","u","v","w","x","y","z"}
Letter == Upper \cup Lower
Digit == {"0","1","2","3","4","5","6","7","8","9"}
HexDigit == Digit \cup {"a","b","c","d","e","f","A","B","C","D","E","F"}
\* A character outside ASCII is written by the name of its code point, as
\* in "U+00A0"; each one named in this module is one UTF-16 unit and one
\* character of a VARCHAR, so it counts as one element of a string.
\*
\* \s of a regular expression and the white space Number() strips
\* (WhiteSpace and LineTerminator of the language): tab, line feed,
\* vertical tab, form feed, carriage return, blank, no-break space, U+1680,
\* U+2000 to U+200A, U+2028, U+2029, U+202F, U+205F, U+3000 and U+FEFF
Space == {"\t", "\n", "", "\f", "\r", " ", "U+00A0", "U+1680",
          "U+2000", "U+2001", "U+2002", "U+2003", "U+2004", "U+2005",
          "U+2006", "U+2007", "U+2008", "U+2009", "U+200A",
          "U+2028", "U+2029", "U+202F", "U+205F", "U+3000", "U+FEFF"}
\* isspace() of the database server: blank, \t, \n, \v, \f, \r
PgSpace == {" ", "\t", "\n", "", "\f", "\r"}

UpperSeq == <<"A","B","C","D","E","F","G","H","I","J","K","L","M",
              "N","O","P","Q","R","S","T","U","V","W","X","Y","Z">>
LowerSeq == <<"a","b","c","d","e","f","g","h","i","j","k","l","m",
              "n","o","p","q","r","s","t","u","v","w","x","y","z">>
ToLower(c) == IF c \in Upper THEN LowerSeq[CHOOSE i \in 1..26 : UpperSeq[i] = c] ELSE c
\* u is w but for the case of its letters, w in small letters
AnyCase(u, w) == Len(u) = Len(w) /\ \A i \in 1..Len(u) : ToLower(u[i]) = w[i]

DigitVal(c) ==
  CASE c = "0" -> 0 [] c = "1" -> 1 [] c = "2" -> 2 [] c = "3" -> 3
    [] c = "4" -> 4 [] c = "5" -> 5 [] c = "6" -> 6 [] c = "7" -> 7
    [] c = "8" -> 8 [] c = "9" -> 9

HexVal(c) ==
  CASE c \in Digit -> DigitVal(c)
    [] c \in {"a","A"} -> 10 [] c \in {"b","B"} -> 11 [] c \in {"c","C"} -> 12
    [] c \in {"d","D"} -> 13 [] c \in {"e","E"} -> 14 [] c \in {"f","F"} -> 15

DigitChar(d) ==
  CASE d = 0 -> "0" [] d = 1 -> "1" [] d = 2 -> "2" [] d = 3 -> "3"
    [] d = 4 -> "4" [] d = 5 -> "5" [] d = 6 -> "6" [] d = 7 -> "7"
    [] d = 8 -> "8" [] d = 9 -> "9"

\* F(e), e being worked out once, however often F uses it
Eval(F(_), e) == CHOOSE r \in { F(x) : x \in {e} } : TRUE

(***************************************************************************)
(* Decimal arithmetic on digit strings.  A natural number is the sequence  *)
(* of its decimal digits without leading zeros, zero the empty sequence,   *)
(* so that no value is cut to the width of a machine integer.  The         *)
(* operators work on a long number digit by digit, without recursion over  *)
(* its length.                                                             *)
(***************************************************************************)
RECURSIVE NatToStr(_)
NatToStr(n) == IF n < 10 THEN <<DigitChar(n)>>
               ELSE NatToStr(n \div 10) \o <<DigitChar(n % 10)>>

\* the number written by the first k digits of s
RECURSIVE DigitsToNatUpTo(_, _)
DigitsToNatUpTo(s, k) ==
  IF k = 0 THEN 0 ELSE 10 * DigitsToNatUpTo(s, k - 1) + DigitVal(s[k])
DigitsToNat(s) == DigitsToNatUpTo(s, Len(s))

\* index of the first character of s that is in cs, 0 when there is none
FirstIndex(s, cs) ==
  IF \E i \in 1..Len(s) : s[i] \in cs
  THEN CHOOSE i \in 1..Len(s) : s[i] \in cs /\ \A j \in 1..(i-1) : s[j] \notin cs
  ELSE 0

\* index of the first character of s from its k-th on that is not in cs,
\* Len(s) + 1 when there is none
FirstNotIn(s, k, cs) ==
  IF \E i \in k..Len(s) : s[i] \notin cs
  THEN CHOOSE i \in k..Len(s) : s[i] \notin cs /\ \A j \in k..(i-1) : s[j] \in cs
  ELSE Len(s) + 1

\* index of the last character of s that is not in cs, 0 when there is none
LastNotIn(s, cs) ==
  IF \E i \in 1..Len(s) : s[i] \notin cs
  THEN CHOOSE i \in 1..Len(s) : s[i] \notin cs /\ \A j \in (i+1)..Len(s) : s[j] \in cs
  ELSE 0

StripLeadingZeros(s) == SubSeq(s, FirstNotIn(s, 1, {"0"}), Len(s))
StripTrailingZeros(s) == SubSeq(s, 1, LastNotIn(s, {"0"}))

Zeros(n) == <<>> \o [i \in 1..n |-> "0"]
NatDigits(n) == IF n = 0 THEN <<>> ELSE NatToStr(n)
IsDigits(s) == \A i \in 1..Len(s) : s[i] \in Digit
Odd(s) == Len(s) > 0 /\ DigitVal(s[Len(s)]) % 2 = 1

\* a < b, a and b without leading zeros
DigitsLess(a, b) ==
  \/ Len(a) < Len(b)
  \/ /\ Len(a) = Len(b)
     /\ \E i \in 1..Len(a) : /\ DigitVal(a[i]) < DigitVal(b[i])
                             /\ \A j \in 1..(i-1) : a[j] = b[j]

\* the digit of s that stands at place t of a number of n digits, s being
\* written flush right
DigitAt(s, n, t) == IF t > n - Len(s) THEN DigitVal(s[t - (n - Len(s))]) ELSE 0

\* 2 * s: the carry into a digit is told by the digit after it
Double(s) ==
  LET c == IF Len(s) > 0 /\ DigitVal(s[1]) >= 5 THEN 1 ELSE 0
  IN <<>> \o [i \in 1..(Len(s) + c) |->
        IF i = c THEN "1"
        ELSE DigitChar((2 * DigitVal(s[i - c])
                        + (IF i - c < Len(s) /\ DigitVal(s[i - c + 1]) >= 5 THEN 1 ELSE 0))
                       % 10)]

\* 5 * s, as (10 * s) / 2: what is left of a digit is told by the digit
\* before it
Times5(s) ==
  LET off == IF Len(s) > 0 /\ DigitVal(s[1]) < 2 THEN 1 ELSE 0
      n == IF Len(s) = 0 THEN 0 ELSE Len(s) + 1
  IN <<>> \o [i \in 1..(n - off) |->
        DigitChar(((IF i + off <= Len(s) THEN DigitVal(s[i + off]) ELSE 0)
                   + (IF i + off > 1 /\ DigitVal(s[i + off - 1]) % 2 = 1 THEN 10 ELSE 0))
                  \div 2)]

\* s * 2^n and s * 5^n
RECURSIVE TimesPow2(_, _)
TimesPow2(s, n) ==
  IF n = 0 THEN s
  ELSE IF n = 1 THEN Double(s)
  ELSE Eval(LAMBDA t : TimesPow2(t, n - n \div 2), TimesPow2(s, n \div 2))
RECURSIVE TimesPow5(_, _)
TimesPow5(s, n) ==
  IF n = 0 THEN s
  ELSE IF n = 1 THEN Times5(s)
  ELSE Eval(LAMBDA t : TimesPow5(t, n - n \div 2), TimesPow5(s, n \div 2))

\* the carry into place t of a + b, both written on n digits: told by the
\* first place after t whose digits do not add up to 9
CarryInto(a, b, n, t) ==
  /\ \E j \in (t+1)..n : DigitAt(a, n, j) + DigitAt(b, n, j) # 9
  /\ LET f == CHOOSE j \in (t+1)..n :
                 /\ DigitAt(a, n, j) + DigitAt(b, n, j) # 9
                 /\ \A u \in (t+1)..(j-1) : DigitAt(a, n, u) + DigitAt(b, n, u) = 9
     IN DigitAt(a, n, f) + DigitAt(b, n, f) >= 10

\* a + b
Add(a, b) ==
  LET n == IF Len(a) > Len(b) THEN Len(a) ELSE Len(b)
      c == IF CarryInto(a, b, n, 0) THEN 1 ELSE 0
  IN <<>> \o [i \in 1..(n + c) |->
        IF i = c THEN "1"
        ELSE DigitChar((DigitAt(a, n, i - c) + DigitAt(b, n, i - c)
                        + (IF CarryInto(a, b, n, i - c) THEN 1 ELSE 0)) % 10)]

\* the borrow from place t of a - b: told by the first place after t where
\* the digits differ
BorrowFrom(a, b, n, t) ==
  /\ \E j \in (t+1)..n : DigitAt(a, n, j) # DigitAt(b, n, j)
  /\ LET f == CHOOSE j \in (t+1)..n :
                 /\ DigitAt(a, n, j) # DigitAt(b, n, j)
                 /\ \A u \in (t+1)..(j-1) : DigitAt(a, n, u) = DigitAt(b, n, u)
     IN DigitAt(a, n, f) < DigitAt(b, n, f)

\* a - b, for a >= b
Sub(a, b) ==
  Eval(StripLeadingZeros,
       [i \in 1..Len(a) |->
          DigitChar((10 + DigitVal(a[i]) - DigitAt(b, Len(a), i)
                     - (IF BorrowFrom(a, b, Len(a), i) THEN 1 ELSE 0)) % 10)])

\* the value of the digits lo..hi of s, written in base 2^bits
RECURSIVE RadixValue(_, _, _, _)
RadixValue(s, lo, hi, bits) ==
  IF lo > hi THEN <<>>
  ELSE IF lo = hi THEN NatDigits(HexVal(s[lo]))
  ELSE Eval(LAMBDA low :
              Eval(LAMBDA high : Add(high, low),
                   Eval(LAMBDA top : TimesPow2(top, bits * (hi - (lo + hi) \div 2)),
                        RadixValue(s, lo, (lo + hi) \div 2, bits))),
            RadixValue(s, (lo + hi) \div 2 + 1, hi, bits))

(***************************************************************************)
(* Numbers.  A number is NaN, an infinity, or a signed decimal ip.fp (ip   *)
(* without leading zeros, fp without trailing zeros; -0 is the negative    *)
(* decimal with no digit).  A double is written by the shortest decimal    *)
(* that reads back as that double, the digits Number::toString gives it.   *)
(***************************************************************************)
NaN == [nan |-> TRUE, inf |-> FALSE, neg |-> FALSE, ip |-> <<>>, fp |-> <<>>]
Inf(neg) == [nan |-> FALSE, inf |-> TRUE, neg |-> neg, ip |-> <<>>, fp |-> <<>>]
Dec(neg, ip, fp) ==
  [nan |-> FALSE, inf |-> FALSE, neg |-> neg,
   ip |-> Eval(StripLeadingZeros, ip), fp |-> Eval(StripTrailingZeros, fp)]
Num(n) == IF n < 0 THEN Dec(TRUE, NatToStr(-n), <<>>) ELSE Dec(FALSE, NatToStr(n), <<>>)
IsZero(d) == ~d.nan /\ ~d.inf /\ d.ip = <<>> /\ d.fp = <<>>

\* |d| < m and |d| > m for a finite d and a natural number m
MagLess(d, m) == Eval(LAMBDA md : DigitsLess(d.ip, md), NatDigits(m))
MagGreater(d, m) ==
  Eval(LAMBDA md : DigitsLess(md, d.ip) \/ (d.ip = md /\ d.fp # <<>>), NatDigits(m))

\* d < k and d > k for an integer k; both are false when d is NaN, and -0
\* is not below 0
NumLess(d, k) ==
  IF d.nan THEN FALSE
  ELSE IF d.inf THEN d.neg
  ELSE IF ~d.neg \/ IsZero(d)
  THEN (IF k >= 0 THEN MagLess(d, k) ELSE FALSE)
  ELSE (IF k >= 0 THEN TRUE ELSE MagGreater(d, -k))
NumGreater(d, k) ==
  IF d.nan THEN FALSE
  ELSE IF d.inf THEN ~d.neg
  ELSE IF ~d.neg \/ IsZero(d)
  THEN (IF k >= 0 THEN MagGreater(d, k) ELSE TRUE)
  ELSE (IF k >= 0 THEN FALSE ELSE MagLess(d, -k))

\* c / 10^scale
FromScaled(neg, c, scale) ==
  Dec(neg,
      SubSeq(c, 1, Len(c) - scale),
      IF Len(c) >= scale THEN SubSeq(c, Len(c) - scale + 1, Len(c))
      ELSE Zeros(scale - Len(c)) \o c)

\* 0.sig * 10^p
FromSignificand(neg, sig, p) ==
  IF p >= Len(sig) THEN Dec(neg, sig \o Zeros(p - Len(sig)), <<>>)
  ELSE FromScaled(neg, sig, Len(sig) - p)

\* where the parts of a decimal literal lie in u: the first character after
\* the sign, the first e or E and the first point (0: none)
LiteralParts(u) ==
  [ start |-> IF Len(u) > 0 /\ u[1] \in {"+", "-"} THEN 2 ELSE 1,
    neg |-> Len(u) > 0 /\ u[1] = "-",
    ePos |-> FirstIndex(u, {"e", "E"}),
    dot |-> FirstIndex(u, {"."}) ]

\* The parts of [sign] digits [. digits] [e [sign] digits], one digit at
\* least before the exponent and one in it; ok is false for a string that
\* does not start so, junk tells whether anything follows the digits of the
\* exponent.  An exponent of more than six digits counts as 999999.
DecimalLiteralAt(u, p) ==
  LET mEnd == IF p.ePos = 0 THEN Len(u) ELSE p.ePos - 1
      dotted == p.dot # 0 /\ p.dot <= mEnd
      intD == SubSeq(u, p.start, IF dotted THEN p.dot - 1 ELSE mEnd)
      fracD == IF dotted THEN SubSeq(u, p.dot + 1, mEnd) ELSE <<>>
      eSgn == p.ePos # 0 /\ p.ePos < Len(u) /\ u[p.ePos + 1] \in {"+", "-"}
      eNeg == eSgn /\ u[p.ePos + 1] = "-"
      eFrom == p.ePos + (IF eSgn THEN 2 ELSE 1)
      eEnd == IF p.ePos = 0 THEN Len(u) ELSE FirstNotIn(u, eFrom, Digit) - 1
      ok == /\ IsDigits(intD) /\ IsDigits(fracD)
            /\ Len(intD) + Len(fracD) > 0
            /\ p.ePos = 0 \/ eEnd >= eFrom
  IN IF ok
     THEN Eval(LAMBDA eStr :
                 [ok |-> TRUE, junk |-> eEnd < Len(u), neg |-> p.neg,
                  int |-> intD, frac |-> fracD,
                  exp |-> (IF eNeg THEN -1 ELSE 1)
                            * (IF Len(eStr) > 6 THEN 999999 ELSE DigitsToNat(eStr)),
                  expDigits |-> eStr],
               StripLeadingZeros(IF p.ePos = 0 THEN <<>> ELSE SubSeq(u, eFrom, eEnd)))
     ELSE [ok |-> FALSE, junk |-> FALSE, neg |-> FALSE, int |-> <<>>, frac |-> <<>>,
           exp |-> 0, expDigits |-> <<>>]
DecimalLiteral(u) == Eval(LAMBDA p : DecimalLiteralAt(u, p), LiteralParts(u))

\* the significant digits of int.frac (no zero at either end)
LiteralDigits(l) ==
  Eval(StripTrailingZeros, Eval(StripLeadingZeros, l.int \o l.frac))
LiteralIsZero(l) == \A i \in 1..Len(l.int \o l.frac) : (l.int \o l.frac)[i] = "0"
\* p with |int.frac * 10^exp| = 0.digits * 10^p
Magnitude(l) ==
  Len(l.int) + l.exp - (FirstNotIn(l.int \o l.frac, 1, {"0"}) - 1)

\* int.frac * 10^exp
Scaled(l) ==
  Eval(LAMBDA sig : FromSignificand(l.neg, sig, Magnitude(l)), LiteralDigits(l))

(***************************************************************************)
(* Rounding a decimal to the nearest double (ties to the even significand) *)
(* and writing a double by its shortest decimal.                           *)
(***************************************************************************)
\* 2^52 and 2^53: a double has a significand of 53 bits
Two52 == <<"4","5","0","3","5","9","9","6","2","7","3","7","0","4","9","6">>
Two53 == <<"9","0","0","7","1","9","9","2","5","4","7","4","0","9","9","2">>

\* a number not above the binary logarithm of 10^(p-1), and close to it
Log2Below(p) == ((p - 1) * 33219) \div 10000 - 1

\* 0.sig * 10^p as n / q * 2^(e + 52), e not below the exponent of the
\* denormal doubles
Quotient(sig, p) ==
  LET e0 == IF Log2Below(p) - 52 < -1074 THEN -1074 ELSE Log2Below(p) - 52
      n0 == sig \o Zeros(IF p > Len(sig) THEN p - Len(sig) ELSE 0)
      q0 == <<"1">> \o Zeros(IF p < Len(sig) THEN Len(sig) - p ELSE 0)
  IN [ n |-> IF e0 + 52 < 0 THEN Eval(LAMBDA x : TimesPow2(x, - (e0 + 52)), n0) ELSE n0,
       q |-> IF e0 + 52 > 0 THEN Eval(LAMBDA x : TimesPow2(x, e0 + 52), q0) ELSE q0,
       e |-> e0 ]

\* the same number with n < 2 * q
RECURSIVE Normalized(_)
Normalized(st) ==
  Eval(LAMBDA q2 : IF DigitsLess(st.n, q2) THEN st
                   ELSE Eval(Normalized, [n |-> st.n, q |-> q2, e |-> st.e + 1]),
       Double(st.q))

\* one more bit of r / q: m the bits so far, r what is left
BitStep(st) ==
  Eval(LAMBDA r2 :
         IF DigitsLess(r2, st.q)
         THEN [r |-> r2, m |-> Double(st.m), q |-> st.q]
         ELSE [r |-> Sub(r2, st.q),
               m |-> Eval(LAMBDA m2 : Add(m2, <<"1">>), Double(st.m)),
               q |-> st.q],
       Double(st.r))
RECURSIVE BitSteps(_, _)
BitSteps(st, n) ==
  IF n = 0 THEN st
  ELSE IF n = 1 THEN BitStep(st)
  ELSE Eval(LAMBDA half : BitSteps(half, n - n \div 2), BitSteps(st, n \div 2))

\* the 53 bits of n / q, and what is left
Mantissa(st) ==
  Eval(LAMBDA first : [b |-> BitSteps(first, 52), e |-> st.e],
       IF DigitsLess(st.n, st.q)
       THEN [r |-> st.n, m |-> <<>>, q |-> st.q]
       ELSE [r |-> Sub(st.n, st.q), m |-> <<"1">>, q |-> st.q])

\* rounding to the nearest, a tie to the even significand
Rounded(x) ==
  Eval(LAMBDA r2 :
         Eval(LAMBDA m : IF m = Two53 THEN [m |-> Two52, e |-> x.e + 1]
                         ELSE [m |-> m, e |-> x.e],
              IF DigitsLess(x.b.q, r2) \/ (r2 = x.b.q /\ Odd(x.b.m))
              THEN Add(x.b.m, <<"1">>) ELSE x.b.m),
       Double(x.b.r))

\* the double nearest to 0.sig * 10^p, as m * 2^e
RoundToDouble(sig, p) ==
  Eval(Rounded, Eval(Mantissa, Eval(Normalized, Quotient(sig, p))))

\* j * 2^s as a number of units of 10^s (s < 0) or of ones
ScaledBy(j, s) ==
  Eval(LAMBDA v : IF s >= 0 THEN TimesPow2(v, s) ELSE TimesPow5(v, -s), j)

\* The double m * 2^e and the ends of the interval of the numbers that
\* round to it, in units of 10^-scale.  The interval reaches half way to
\* the doubles next to it (a quarter of the way below a power of two), and
\* holds its ends when m is even.
Bounds(d) ==
  Eval(LAMBDA m4 :
         [ lo |-> ScaledBy(Sub(m4, IF d.m = Two52 /\ d.e > -1074 THEN <<"1">>
                                   ELSE <<"2">>), d.e - 2),
           x |-> ScaledBy(m4, d.e - 2),
           hi |-> ScaledBy(Add(m4, <<"2">>), d.e - 2),
           scale |-> IF d.e - 2 < 0 THEN 2 - d.e ELSE 0,
           closed |-> ~Odd(d.m) ],
       Eval(Double, Double(d.m)))

Within(bd, c) ==
  IF bd.closed THEN ~DigitsLess(c, bd.lo) /\ ~DigitsLess(bd.hi, c)
  ELSE DigitsLess(bd.lo, c) /\ DigitsLess(c, bd.hi)

\* of the two numbers of k significant digits next to x, below and above,
\* the one within the interval (the nearer to x when both are, the even one
\* when both are as near); no digit when neither is
Candidate(bd, k) ==
  IF k >= Len(bd.x) THEN bd.x
  ELSE Eval(LAMBDA c :
              IF Within(bd, c.below) /\ Within(bd, c.above)
              THEN Eval(LAMBDA gap :
                          IF DigitsLess(gap.below, gap.above) THEN c.below
                          ELSE IF DigitsLess(gap.above, gap.below) THEN c.above
                          ELSE IF DigitVal(c.below[k]) % 2 = 0 THEN c.below
                          ELSE c.above,
                        [below |-> Sub(bd.x, c.below), above |-> Sub(c.above, bd.x)])
              ELSE IF Within(bd, c.below) THEN c.below
              ELSE IF Within(bd, c.above) THEN c.above
              ELSE <<>>,
            [ below |-> SubSeq(bd.x, 1, k) \o Zeros(Len(bd.x) - k),
              above |-> Eval(LAMBDA h : Add(h, <<"1">>), SubSeq(bd.x, 1, k))
                          \o Zeros(Len(bd.x) - k) ])

\* the shortest decimal within the interval: 17 digits tell any double
Shortest(bd) ==
  Eval(LAMBDA cs :
         cs[CHOOSE k \in 1..17 : cs[k] # <<>> /\ \A j \in 1..(k-1) : cs[j] = <<>>],
       <<>> \o [k \in 1..17 |-> Candidate(bd, k)])

\* The double nearest to 0.sig * 10^p, sig without a zero at either end.  A
\* number of 15 digits at most well within the range of the doubles is its
\* own shortest decimal; from 2^1024 - 2^970 on the double is Infinity.
NearestDouble(neg, sig, p) ==
  IF sig = <<>> \/ p < -330 THEN Dec(neg, <<>>, <<>>)
  ELSE IF p > 310 THEN Inf(neg)
  ELSE IF Len(sig) <= 15 /\ p >= -300 /\ p <= 300 THEN FromSignificand(neg, sig, p)
  ELSE Eval(LAMBDA d :
              IF d.m = <<>> THEN Dec(neg, <<>>, <<>>)
              ELSE IF d.e > 971 THEN Inf(neg)
              ELSE Eval(LAMBDA bd : FromScaled(neg, Shortest(bd), bd.scale), Bounds(d)),
            RoundToDouble(sig, p))

(***************************************************************************)
(* JSON values of a request body.  A field of the body is absent           *)
(* (undefined after destructuring), null, a boolean, a number or a string; *)
(* objects and arrays are not modelled.                                    *)
(***************************************************************************)
JsUndefined == [t |-> "undefined", s |-> <<>>, n |-> Num(0), b |-> FALSE]
JsNull == [t |-> "null", s |-> <<>>, n |-> Num(0), b |-> FALSE]
JsStr(s) == [t |-> "string", s |-> s, n |-> Num(0), b |-> FALSE]
JsNumber(d) == [t |-> "number", s |-> <<>>, n |-> d, b |-> FALSE]
JsNum(n) == JsNumber(Num(n))
JsBool(b) == [t |-> "boolean", s |-> <<>>, n |-> Num(0), b |-> b]

\* the significant digits sig of a finite d that is not zero, and n with
\* |d| = 0.sig * 10^n
Significand(d) ==
  Eval(LAMBDA lead :
         [sig |-> StripTrailingZeros(lead),
          n |-> Len(d.ip) - (Len(d.ip) + Len(d.fp) - Len(lead))],
       StripLeadingZeros(d.ip \o d.fp))

\* Number::toString: plain decimal notation between 1e-7 and 1e21,
\* exponent notation outside
NumberToStringAt(d, p) ==
  LET sig == p.sig
      n == p.n
      k == Len(sig)
      es == IF n - 1 < 0 THEN <<"-">> \o NatToStr(1 - n) ELSE <<"+">> \o NatToStr(n - 1)
      body ==
        IF k <= n /\ n <= 21 THEN sig \o Zeros(n - k)
        ELSE IF 0 < n /\ n <= 21
        THEN SubSeq(sig, 1, n) \o <<".">> \o SubSeq(sig, n + 1, k)
        ELSE IF -6 < n /\ n <= 0 THEN <<"0", ".">> \o Zeros(-n) \o sig
        ELSE IF k = 1 THEN sig \o <<"e">> \o es
        ELSE <<sig[1]>> \o <<".">> \o Tail(sig) \o <<"e">> \o es
  IN (IF d.neg THEN <<"-">> ELSE <<>>) \o body
NumberToString(d) ==
  IF d.nan THEN <<"N","a","N">>
  ELSE IF d.inf
  THEN (IF d.neg THEN <<"-">> ELSE <<>>) \o <<"I","n","f","i","n","i","t","y">>
  ELSE IF IsZero(d) THEN <<"0">>
  ELSE Eval(LAMBDA p : NumberToStringAt(d, p), Significand(d))

\* String(v), the coercion RegExp.prototype.test applies to its argument
JsString(v) ==
  CASE v.t = "string" -> v.s
    [] v.t = "number" -> NumberToString(v.n)
    [] v.t = "boolean" -> IF v.b THEN <<"t","r","u","e">> ELSE <<"f","a","l","s","e">>
    [] v.t = "null" -> <<"n","u","l","l">>
    [] v.t = "undefined" -> <<"u","n","d","e","f","i","n","e","d">>

\* !v is false
Truthy(v) ==
  CASE v.t = "string" -> Len(v.s) > 0
    [] v.t = "number" -> ~v.n.nan /\ ~IsZero(v.n)
    [] v.t = "boolean" -> v.b
    [] v.t = "null" -> FALSE
    [] v.t = "undefined" -> FALSE

\* s without the characters of cs at its two ends
Strip(s, cs) ==
  Eval(LAMBDA to : SubSeq(s, FirstNotIn(s, 1, cs), to), LastNotIn(s, cs))

\* String.prototype.trim, and what Number() drops around a string
Trim(s) == Strip(s, Space)

\* 0x / 0o / 0b followed by digits of that base: the bits of a digit,
\* otherwise 0
RadixOf(u) ==
  IF Len(u) > 2 /\ u[1] = "0"
  THEN (IF u[2] \in {"x", "X"} /\ \A i \in 3..Len(u) : u[i] \in HexDigit THEN 4
        ELSE IF u[2] \in {"o", "O"}
                /\ \A i \in 3..Len(u) : u[i] \in {"0","1","2","3","4","5","6","7"}
        THEN 3
        ELSE IF u[2] \in {"b", "B"} /\ \A i \in 3..Len(u) : u[i] \in {"0", "1"} THEN 1
        ELSE 0)
  ELSE 0

\* the double a decimal literal stands for
LiteralValue(l) ==
  IF ~l.ok \/ l.junk THEN NaN
  ELSE Eval(LAMBDA sig : NearestDouble(l.neg, sig, Magnitude(l)), LiteralDigits(l))

\* StringToNumber of a string without white space around it
TrimmedToNumber(u) ==
  LET infinity == <<"I","n","f","i","n","i","t","y">>
  IN IF Len(u) = 0 THEN Num(0)
     ELSE IF u = infinity \/ u = <<"+">> \o infinity THEN Inf(FALSE)
     ELSE IF u = <<"-">> \o infinity THEN Inf(TRUE)
     ELSE IF RadixOf(u) # 0
     THEN Eval(LAMBDA v :
                 Eval(LAMBDA sig : NearestDouble(FALSE, sig, Len(v)), StripTrailingZeros(v)),
               RadixValue(u, 3, Len(u), RadixOf(u)))
     ELSE Eval(LiteralValue, DecimalLiteral(u))

\* Number(s) of a string (StringNumericLiteral): white space around it is
\* dropped; the empty string is 0; Infinity with an optional sign; an
\* unsigned hexadecimal, octal or binary integer; a decimal with optional
\* sign, fraction and exponent; anything else is NaN.  The value is the
\* double nearest to the number written.
StringToNumber(s) == Eval(TrimmedToNumber, Trim(s))

\* Number(v), the coercion isNaN, < and > apply
ToNumber(v) ==
  CASE v.t = "string" -> StringToNumber(v.s)
    [] v.t = "number" -> v.n
    [] v.t = "boolean" -> IF v.b THEN Num(1) ELSE Num(0)
    [] v.t = "null" -> Num(0)
    [] v.t = "undefined" -> NaN

isNaN(v) == ToNumber(v).nan
\* v < k and v > k are false when v is NaN
JsLess(v, k) == Eval(LAMBDA d : NumLess(d, k), ToNumber(v))
JsGreater(v, k) == Eval(LAMBDA d : NumGreater(d, k), ToNumber(v))
\* v.length > k : reading length of null or undefined throws a TypeError
\* (the validator tests !v first and never gets there); only a string has a
\* length, and undefined > k is false
LengthExceeds(v, k) ==
  IF v.t \in {"null", "undefined"} THEN "TypeError"
  ELSE v.t = "string" /\ Len(v.s) > k

(***************************************************************************)
(* The regular expressions of the validator.                               *)
(***************************************************************************)
\* /^[A-Z][a-zA-Z]+(?: [A-Z][a-zA-Z]+)*$/
NamePattern(s) ==
  /\ Len(s) > 0
  /\ \A i \in 1..Len(s) : s[i] \in Letter \/ s[i] = " "
  /\ \A i \in 1..Len(s) :
       (i = 1 \/ s[i-1] = " ") =>
          /\ s[i] \in Upper
          /\ i < Len(s)
          /\ s[i+1] \in Letter
  /\ s[Len(s)] # " "

\* /^[A-Za-z]+(?: [A-Za-z]+)*$/
PositionPattern(s) ==
  /\ Len(s) > 0
  /\ \A i \in 1..Len(s) : s[i] \in Letter \/ s[i] = " "
  /\ \A i \in 1..Len(s) : (i = 1 \/ s[i-1] = " ") => s[i] \in Letter
  /\ s[Len(s)] # " "

\* /^ATS0(?!000)\d{3}$/
EmpIdPattern(s) ==
  /\ Len(s) = 7
  /\ SubSeq(s, 1, 4) = <<"A","T","S","0">>
  /\ \A i \in 5..7 : s[i] \in Digit
  /\ SubSeq(s, 5, 7) # <<"0","0","0">>

\* /^[0-9\s\W_]+$/ : every character is a digit, white space, an
\* underscore or not a word character ([A-Za-z0-9_]), that is: the string
\* is non-empty and has no letter
NoLetterPattern(s) ==
  /\ Len(s) > 0
  /\ \A i \in 1..Len(s) : \/ s[i] \in Digit \cup Space \cup {"_"}
                           \/ s[i] \notin Letter \cup Digit \cup {"_"}

Departments == { <<"E","n","g","i","n","e","e","r","i","n","g">>,
                 <<"M","a","r","k","e","t","i","n","g">>,
                 <<"H","R">>,
                 <<"F","i","n","a","n","c","e">> }

\* ['Engineering', 'Marketing', 'HR', 'Finance'].includes(department)
DepartmentIncluded(v) == v.t = "string" /\ v.s \in Departments

(***************************************************************************)
(* Input validation of POST /api/offboarding/submit: the error of the      *)
(* first failing check, or "" when every check passes.                     *)
(***************************************************************************)
NameInvalid(b) == ~Truthy(b.empName) \/ ~NamePattern(JsString(b.empName))
PositionInvalid(b) == ~Truthy(b.position) \/ ~PositionPattern(JsString(b.position))
DepartmentInvalid(b) == ~Truthy(b.department) \/ ~DepartmentIncluded(b.department)
EmpIdInvalid(b) == ~Truthy(b.empId) \/ ~EmpIdPattern(JsString(b.empId))
FeedbackInvalid(b) ==
  \/ ~Truthy(b.feedback)
  \/ LengthExceeds(b.feedback, FeedbackMax)
  \/ NoLetterPattern(JsString(b.feedback))
AcknowledgmentInvalid(b) ==
  \/ ~Truthy(b.acknowledgment)
  \/ LengthExceeds(b.acknowledgment, AckMax)
  \/ NoLetterPattern(JsString(b.acknowledgment))
SalaryInvalid(b) ==
  \/ isNaN(b.finalSalary)
  \/ JsLess(b.finalSalary, SalaryMin)
  \/ JsGreater(b.finalSalary, SalaryMax)
BonusInvalid(b) ==
  \/ isNaN(b.bonus)
  \/ JsLess(b.bonus, BonusMin)
  \/ JsGreater(b.bonus, BonusMax)

ValidationError(b) ==
  IF NameInvalid(b) THEN "Invalid employee name"
  ELSE IF PositionInvalid(b) THEN "Invalid position"
  ELSE IF DepartmentInvalid(b) THEN "Invalid department"
  ELSE IF EmpIdInvalid(b) THEN "Invalid employee ID"
  ELSE IF FeedbackInvalid(b) THEN "Invalid feedback"
  ELSE IF AcknowledgmentInvalid(b) THEN "Invalid acknowledgment"
  ELSE IF SalaryInvalid(b) THEN "Invalid final salary"
  ELSE IF BonusInvalid(b) THEN "Invalid bonus amount"
  ELSE ""

(***************************************************************************)
(* The offboarding table of createTableQuery, as PostgreSQL executes the   *)
(* INSERT and the SELECT on it.  A parameter reaches the server as NULL or *)
(* as text (node-postgres sends null and undefined as NULL, a number or a  *)
(* boolean as its string).                                                 *)
(***************************************************************************)
SqlNull == [null |-> TRUE, s |-> <<>>]
SqlText(s) == [null |-> FALSE, s |-> s]

PgParam(v) == IF v.t \in {"null", "undefined"} THEN SqlNull ELSE SqlText(JsString(v))

\* const values = [empName, position, department, empId, feedback,
\*                 finalSalary, bonus, acknowledgment]
InsertValues(b) ==
  << PgParam(b.empName), PgParam(b.position), PgParam(b.department),
     PgParam(b.empId), PgParam(b.feedback), PgParam(b.finalSalary),
     PgParam(b.bonus), PgParam(b.acknowledgment) >>

\* hundredths of |d|, the third decimal rounded half away from zero
Cents(d) ==
  Eval(LAMBDA c : IF Len(d.fp) >= 3 /\ DigitVal(d.fp[3]) >= 5 THEN Add(c, <<"1">>) ELSE c,
       StripLeadingZeros(d.ip \o SubSeq(d.fp \o Zeros(2), 1, 2)))

\* a number of hundredths c as a decimal
FromCents(neg, c) == FromScaled(neg /\ c # <<>>, c, 2)

\* numeric(numeric, typmod): the digits after the second decimal dropped
Round2(d) ==
  IF d.nan \/ d.inf THEN d ELSE Eval(LAMBDA c : FromCents(d.neg, c), Cents(d))

\* strtol reads the exponent, and skips white space before it
PgExponentTrimmed(u) ==
  Eval(LAMBDA e : IF e = 0 THEN u
                  ELSE SubSeq(u, 1, e) \o SubSeq(u, FirstNotIn(u, e + 1, PgSpace), Len(u)),
       FirstIndex(u, {"e", "E"}))

\* What numeric_in makes of a decimal literal: err is the SQLSTATE it
\* raises ("" for none), val the value read.  An exponent of INT_MAX / 2 or
\* more either way, more than 131072 digits before the decimal point or
\* more than 16383 after it overflow the format (22003), and are seen
\* before anything that follows the number.  A value beyond what
\* NUMERIC(10, 2) holds is not written out: val is then an infinity.
PgLiteralValue(l) ==
  IF ~l.ok THEN [err |-> "22P02", val |-> NaN]
  ELSE IF ~DigitsLess(l.expDigits, NatDigits(1073741823))
  THEN [err |-> "22003", val |-> NaN]
  ELSE IF l.junk THEN [err |-> "22P02", val |-> NaN]
  ELSE IF \/ Len(l.frac) - l.exp > 16383
          \/ ~LiteralIsZero(l) /\ Magnitude(l) > 131072
  THEN [err |-> "22003", val |-> NaN]
  ELSE IF LiteralIsZero(l) \/ Magnitude(l) < -3
  THEN [err |-> "", val |-> Dec(FALSE, <<>>, <<>>)]
  ELSE IF Magnitude(l) > 9 THEN [err |-> "", val |-> Inf(l.neg)]
  ELSE [err |-> "", val |-> Scaled(l)]

\* numeric_in of a string without white space around it
PgTrimmedNumericIn(u) ==
  IF AnyCase(u, <<"n","a","n">>) THEN [err |-> "", val |-> NaN]
  ELSE IF \E w \in { <<"i","n","f","i","n","i","t","y">>,
                     <<"+","i","n","f","i","n","i","t","y">>,
                     <<"i","n","f">>, <<"+","i","n","f">> } : AnyCase(u, w)
  THEN [err |-> "", val |-> Inf(FALSE)]
  ELSE IF \E w \in { <<"-","i","n","f","i","n","i","t","y">>,
                     <<"-","i","n","f">> } : AnyCase(u, w)
  THEN [err |-> "", val |-> Inf(TRUE)]
  ELSE Eval(PgLiteralValue, Eval(DecimalLiteral, PgExponentTrimmed(u)))

\* The input function of NUMERIC in PostgreSQL 15 (the image of
\* docker-compose.yml), called without a type modifier when a parameter is
\* bound: white space around the value; NaN, Infinity and inf in any case,
\* the infinities with an optional sign; or a decimal with optional sign,
\* fraction and exponent.  No hexadecimal, octal or binary form.
PgNumericIn(s) == Eval(PgTrimmedNumericIn, Strip(s, PgSpace))

\* SQLSTATE of reading a parameter as NUMERIC, "" when it is read
NumericInputCode(p) == IF p.null THEN "" ELSE PgNumericIn(p.s).err
\* text accepted by the input function of NUMERIC
NumericSyntaxOk(p) == NumericInputCode(p) # "22P02"
\* the value a NUMERIC(10, 2) column takes: rounded to two decimals
NumericValue(p) == Eval(Round2, PgNumericIn(p.s).val)
\* NUMERIC(10, 2) holds fewer than 10^8 units after rounding; NaN is stored
\* as it is
NumericFits(p) ==
  \/ p.null
  \/ Eval(LAMBDA d : d.nan \/ (~d.inf /\ MagLess(d, NumericLimit)), NumericValue(p))

\* VARCHAR(n): a longer value is an error unless the excess is all spaces
VarcharFits(p, n) ==
  p.null \/ Len(p.s) <= n \/ \A i \in (n+1)..Len(p.s) : p.s[i] = " "
VarcharStored(p, n) == IF Len(p.s) <= n THEN p.s ELSE SubSeq(p.s, 1, n)

AnyNull(v) == \E i \in 1..8 : v[i].null

\* the table without its UNIQUE constraint
UniqueViolationOff(rows, v) == FALSE

\* employee_id VARCHAR(7) NOT NULL UNIQUE
UniqueViolation(rows, v) ==
  \E i \in 1..Len(rows) : rows[i].employee_id = VarcharStored(v[4], EmpIdWidth)

\* SQLSTATE of reading the parameters $6 and $7, in this order, when they
\* are bound to the statement ("" when both are read)
BindCode(v) ==
  IF NumericInputCode(v[6]) # "" THEN NumericInputCode(v[6]) ELSE NumericInputCode(v[7])

\* SQLSTATE of INSERT INTO offboarding (...) VALUES ($1..$8) RETURNING id;
\* duplicate: a row with the employee_id of v is stored.  The statement is
\* parsed (42P01), its parameters are bound, the row is formed column by
\* column, then the constraints are checked.
InsertCode(exists, duplicate, v) ==
  IF ~exists THEN "42P01"
  ELSE IF BindCode(v) # "" THEN BindCode(v)
  ELSE IF \/ ~VarcharFits(v[1], NameWidth) \/ ~VarcharFits(v[2], NameWidth)
          \/ ~VarcharFits(v[3], DeptWidth) \/ ~VarcharFits(v[4], EmpIdWidth)
       THEN "22001"
  ELSE IF ~NumericFits(v[6]) \/ ~NumericFits(v[7]) THEN "22003"
  ELSE IF AnyNull(v) THEN "23502"
  ELSE IF duplicate THEN "23505"
  ELSE "00000"

\* id SERIAL: nextval is taken when the row is formed, so a statement that
\* fails later still uses up a value; one that fails on a missing table, or
\* while its parameters are bound (bind: what BindCode gives), does not.
SerialAfter(seq, code, bind) == IF code = "42P01" \/ bind # "" THEN seq ELSE seq + 1

\* the values the columns take from the parameters
StoredColumns(v) ==
  [ employee_name |-> VarcharStored(v[1], NameWidth),
    position |-> VarcharStored(v[2], NameWidth),
    department |-> VarcharStored(v[3], DeptWidth),
    employee_id |-> VarcharStored(v[4], EmpIdWidth),
    feedback |-> v[5].s,
    final_salary |-> NumericValue(v[6]),
    bonus |-> NumericValue(v[7]),
    acknowledgment |-> v[8].s ]

\* id SERIAL PRIMARY KEY, created_at TIMESTAMP DEFAULT CURRENT_TIMESTAMP
NewRow(id, cols, ts) ==
  [ id |-> id,
    employee_name |-> cols.employee_name,
    position |-> cols.position,
    department |-> cols.department,
    employee_id |-> cols.employee_id,
    feedback |-> cols.feedback,
    final_salary |-> cols.final_salary,
    bonus |-> cols.bonus,
    acknowledgment |-> cols.acknowledgment,
    created_at |-> ts ]

RowsAfterInsert(rows, code, seq, cols, ts) ==
  IF code = "00000" THEN Append(rows, NewRow(seq + 1, cols, ts)) ELSE rows

\* a NUMERIC(10, 2) column comes back as text with two decimals
NumericOut(d) ==
  IF d.nan THEN <<"N","a","N">>
  ELSE (IF d.neg THEN <<"-">> ELSE <<>>)
       \o (IF d.ip = <<>> THEN <<"0">> ELSE d.ip)
       \o <<".">> \o SubSeq(d.fp \o Zeros(2), 1, 2)

\* SELECT employee_name AS "empName", ..., created_at AS "createdAt"
SelectedRow(row) ==
  [ empName |-> row.employee_name,
    position |-> row.position,
    department |-> row.department,
    empId |-> row.employee_id,
    feedback |-> row.feedback,
    finalSalary |-> NumericOut(row.final_salary),
    bonus |-> NumericOut(row.bonus),
    acknowledgment |-> row.acknowledgment,
    createdAt |-> row.created_at ]

\* The SELECT of Backend/server.js: the same columns without created_at
BackendSelectedRow(row) ==
  [ empName |-> row.employee_name,
    position |-> row.position,
    department |-> row.department,
    empId |-> row.employee_id,
    feedback |-> row.feedback,
    finalSalary |-> NumericOut(row.final_salary),
    bonus |-> NumericOut(row.bonus),
    acknowledgment |-> row.acknowledgment ]

\* ORDER BY created_at DESC
OrderedDesc(sorted) ==
  \A i \in 1..Len(sorted) : \A j \in 1..Len(sorted) :
     i < j => sorted[i].created_at >= sorted[j].created_at

\* The results the SELECT may return: every row once, in an order that
\* ORDER BY created_at DESC allows.  Rows with equal created_at may come in
\* either order: the statement names no further sort key.
SelectResults(rows, server) ==
  LET n == Len(rows)
      perms == { f \in [1..n -> 1..n] : \A i \in 1..n : \E j \in 1..n : f[j] = i }
      sorted == { t \in { [i \in 1..n |-> rows[f[i]]] : f \in perms } : OrderedDesc(t) }
  IN { [i \in 1..n |-> IF server = "part_000" THEN SelectedRow(t[i])
                       ELSE BackendSelectedRow(t[i])] : t \in sorted }

(***************************************************************************)
(* Request bodies the model submits.  Body 0 of a submission stands for a  *)
(* body that is not valid JSON (express.json() fails on it).               *)
(***************************************************************************)
EmpA == <<"A","T","S","0","0","0","1">>
EmpB == <<"A","T","S","0","0","0","2">>
LongName == <<"A">> \o [i \in 1..NameWidth |-> "a"]

BaseBody ==
  [ empName |-> JsStr(<<"J","o">>),
    position |-> JsStr(<<"Q","A">>),
    department |-> JsStr(<<"H","R">>),
    empId |-> JsStr(EmpA),
    feedback |-> JsStr(<<"o","k">>),
    finalSalary |-> JsNum(1000),
    bonus |-> JsNum(0),
    acknowledgment |-> JsStr(<<"o","k">>) ]

Bodies ==
  << BaseBody,
     [BaseBody EXCEPT !.empName = JsStr(<<"A","l"," ","B","o">>),
                      !.empId = JsStr(EmpB),
                      !.finalSalary = JsStr(<<"\t","2","5","0","0",".","5">>),
                      !.bonus = JsNumber(Dec(FALSE, <<"9","9","9","9","9">>, <<"5">>))],
     [BaseBody EXCEPT !.empName = JsStr(LongName)],
     [BaseBody EXCEPT !.empName = JsStr(<<"j","o">>)],
     [BaseBody EXCEPT !.empId = JsStr(EmpB), !.bonus = JsNull],
     [BaseBody EXCEPT !.empId = JsStr(<<"A","T","S","0","0","0","0">>)],
     [BaseBody EXCEPT !.position = JsStr(<<"Q"," "," ","A">>),
                      !.finalSalary = JsNum(999)] >>

\* what the validator and the parameter list make of each body
BodyError == Eval(LAMBDA bs : [b \in 1..Len(bs) |-> ValidationError(bs[b])], Bodies)
BodyValues == Eval(LAMBDA bs : [b \in 1..Len(bs) |-> InsertValues(bs[b])], Bodies)
\* what the INSERT makes of each parameter list: its SQLSTATE, by whether
\* the table exists and whether the employee_id is stored, and its columns
BodyCode ==
  Eval(LAMBDA vs :
         [b \in 1..Len(vs) |->
            [exists \in BOOLEAN |->
               [duplicate \in BOOLEAN |-> InsertCode(exists, duplicate, vs[b])]]],
       BodyValues)
BodyColumns == Eval(LAMBDA vs : [b \in 1..Len(vs) |-> StoredColumns(vs[b])], BodyValues)
BodyBind == Eval(LAMBDA vs : [b \in 1..Len(vs) |-> BindCode(vs[b])], BodyValues)

(***************************************************************************)
(* State.                                                                  *)
(***************************************************************************)
VARIABLES
  impl,       \* which server runs: "part_000" or "server.js"
  phase,      \* "load", "connecting", "delay", "serving", "exited", and while
              \* createTableQuery is out: "schema" (sent), "created" (executed
              \* by the server), "lost" (its connection broke)
  exitCode,   \* argument of process.exit, -1 while the process runs
  attempts,   \* connectWithRetry: let attempts
  tried,      \* history: calls of pool.connect() made by connectWithRetry
  waited,     \* history: retry delays waited by connectWithRetry
  schemaRan,  \* history: initializeDatabase issued createTableQuery
  listened,   \* history: app.listen has been called
  ending,     \* pool.end has been called
  signals,    \* SIGTERM / SIGINT received so far
  total,      \* pool.totalCount: clients of the pool, idle or checked out
  idle,       \* idle clients of the pool
  broken,     \* those of them whose connection the server has closed, the
              \* 'error' event of which has not run yet
  bConn,      \* server.js: the pool.connect test, "none"/"pending"/"ok"
  bSchema,    \* server.js: the CREATE TABLE, "none"/"connecting"/"querying"/
              \* "executed" (by the server)/"lost" (connection broke)/"ok"
  store,      \* the database server: "up", "down" (refuses), "hung" (silent)
  table,      \* the offboarding table exists
  rows,       \* its rows, in insertion order
  seq,        \* last value of the id sequence
  clock,      \* last CURRENT_TIMESTAMP handed out
  req,        \* the requests: slots 1..MaxReq hold the submissions that
              \* issued an INSERT, by order of arrival; slot 0 holds the
              \* most recent other request (a list, a health check, or a
              \* submission answered before any statement was issued)
  nreq        \* submissions that issued an INSERT

vars == << impl, phase, exitCode, attempts, tried, waited, schemaRan, listened,
           ending, signals, total, idle, broken, bConn, bSchema, store, table,
           rows, seq, clock, req, nreq >>

startVars == << attempts, tried, waited, schemaRan, listened >>
backendVars == << bConn, bSchema >>
storeVars == << table, rows, seq, clock >>

Slots == 0..MaxReq
InsertSlots == 1..MaxReq

NoRes == [code |-> "", id |-> 0, added |-> 0, out |-> <<>>]
NoResp == [status |-> 0, error |-> "", message |-> "", id |-> 0, rows |-> <<>>,
           database |-> "", reachable |-> FALSE]
FreeSlot == [kind |-> "none", b |-> 0, pc |-> "free", stmts |-> 0, res |-> NoRes,
             resp |-> NoResp, before |-> {}, late |-> FALSE]

InFlight == { r \in Slots : req[r].pc \in {"connecting", "querying", "result"} }
\* slot 0 can take the next request
OtherSlotFree == req[0].pc = "free"
Answered201 == { r \in Slots : req[r].pc = "done" /\ req[r].resp.status = 201 }

(***************************************************************************)
(* Responses.                                                              *)
(***************************************************************************)
\* res.status(400).json({ error: ... })
ValidationResponse(msg) == [NoResp EXCEPT !.status = 400, !.error = msg]

\* part_000: res.status(500).json({ error: 'Internal server error' })
\* server.js: next(error), answered by its error-handling middleware
StoreErrorResponse ==
  IF impl = "part_000"
  THEN [NoResp EXCEPT !.status = 500, !.error = "Internal server error"]
  ELSE [NoResp EXCEPT !.status = 500,
                      !.error = "Internal server error. Please try again later."]

\* the error-handling middleware, reached by an error of express.json()
MiddlewareResponse(errMessage) ==
  IF impl = "part_000"
  THEN [NoResp EXCEPT !.status = 500, !.error = "Internal server error",
                      !.message = errMessage]
  ELSE [NoResp EXCEPT !.status = 500,
                      !.error = "Internal server error. Please try again later."]

\* the try / catch around pool.query(insertQuery, values)
SubmitResponse(res) ==
  IF res.code = "00000"
  THEN [NoResp EXCEPT !.status = (IF impl = "part_000" THEN 201 ELSE 200),
                      !.message = "Offboarding form submitted successfully",
                      !.id = res.id]
  ELSE IF res.code = "23505"
  THEN [NoResp EXCEPT !.status = (IF impl = "part_000" THEN 409 ELSE 400),
                      !.error = "Employee ID already exists"]
  ELSE StoreErrorResponse

\* the try / catch around pool.query(query) of GET /api/offboarding
ListResponse(res) ==
  IF res.code = "00000"
  THEN [NoResp EXCEPT !.status = 200, !.rows = res.out]
  ELSE StoreErrorResponse

\* database: pool.totalCount > 0 ? 'connected' : 'disconnected'
HealthDatabase(totalCount) == IF totalCount > 0 THEN "connected" ELSE "disconnected"

HealthResponse ==
  [NoResp EXCEPT !.status = 200, !.database = HealthDatabase(total),
                 !.reachable = (store = "up")]

(***************************************************************************)
(* Initial states.                                                         *)
(***************************************************************************)
StoreInit ==
  /\ store \in {"up", "down", "hung"}
  /\ table = FALSE /\ rows = <<>> /\ seq = 0 /\ clock = 0
  /\ req = [r \in Slots |-> FreeSlot] /\ nreq = 0
  /\ exitCode = -1 /\ ending = FALSE /\ signals = 0 /\ idle = 0 /\ broken = 0
  /\ listened = FALSE

\* part_000 after module load: initializeDatabase() has called
\* connectWithRetry(), whose first pool.connect() is pending.
Init ==
  /\ StoreInit
  /\ impl = "part_000" /\ phase = "connecting"
  /\ attempts = 0 /\ tried = 1 /\ waited = 0 /\ schemaRan = FALSE
  /\ total = 1
  /\ bConn = "none" /\ bSchema = "none"

\* server.js before its module body has run
BackendInit ==
  /\ StoreInit
  /\ impl = "server.js" /\ phase = "load"
  /\ attempts = 0 /\ tried = 0 /\ waited = 0 /\ schemaRan = FALSE
  /\ total = 0
  /\ bConn = "none" /\ bSchema = "none"

(***************************************************************************)
(* The pool (node-postgres).  A client is created when none is idle, and   *)
(* counts in pool.totalCount from then on.  A released client becomes idle *)
(* unless the query failed or the pool is ending; then it is removed.      *)
(* pool.end(cb) removes the idle clients and calls cb as soon as no client *)
(* is left: at once, or inside the release of the last checked-out client, *)
(* before the code waiting for that client's result runs.  An idle client  *)
(* whose connection breaks emits 'error'; a checked-out one fails its      *)
(* query.                                                                  *)
(***************************************************************************)
\* pool.connect() settles with an error: the server refuses, or (part_000,
\* connectionTimeoutMillis: 5000) it stays silent until the timeout.
\* server.js sets no connection timeout.
ConnectCanFail == store = "down" \/ (store = "hung" /\ impl = "part_000")

\* the bound of the loop off by one
RetryAllowedOffByOne(n) == n <= MaxAttempts

\* while (attempts < maxAttempts) / if (attempts < maxAttempts)
RetryAllowed(n) == n < MaxAttempts

Exit(code) == phase' = "exited" /\ exitCode' = code

\* The answer in slot 0 is an output: it shows in the state after the step
\* that sent it, and Forget clears it before the model takes another step.
Observed == req[0].pc = "done"

Alive == phase # "exited" /\ ~Observed

(***************************************************************************)
(* Startup of part_000: initializeDatabase().then(app.listen).             *)
(***************************************************************************)
\* const client = await pool.connect(); client.release(); return true;
\* then initializeDatabase issues pool.query(createTableQuery), which takes
\* the client just released.
ConnectSucceeds ==
  /\ Alive /\ impl = "part_000" /\ phase = "connecting" /\ store = "up"
  /\ IF ending
     THEN /\ total' = total - 1
          /\ Exit(0)
          /\ UNCHANGED schemaRan
     ELSE /\ phase' = "schema"
          /\ schemaRan' = TRUE
          /\ UNCHANGED << total, exitCode >>
  /\ UNCHANGED << impl, attempts, tried, waited, listened, ending, signals,
                  idle, broken, backendVars, store, storeVars, req, nreq >>

\* catch (err) { attempts++; if (attempts < maxAttempts) wait else throw }
\* and the catch of initializeDatabase: process.exit(1)
ConnectFails ==
  /\ Alive /\ impl = "part_000" /\ phase = "connecting" /\ ConnectCanFail
  /\ total' = total - 1
  /\ IF ending
     THEN Exit(0) /\ UNCHANGED attempts
     ELSE /\ attempts' = attempts + 1
          /\ IF RetryAllowed(attempts + 1)
             THEN phase' = "delay" /\ UNCHANGED exitCode
             ELSE Exit(1)
  /\ UNCHANGED << impl, tried, waited, schemaRan, listened, ending, signals,
                  idle, broken, backendVars, store, storeVars, req, nreq >>

\* await new Promise(resolve => setTimeout(resolve, delay)); next iteration
RetryDelayElapsed ==
  /\ Alive /\ impl = "part_000" /\ phase = "delay"
  /\ phase' = "connecting"
  /\ tried' = tried + 1
  /\ waited' = waited + 1
  /\ total' = total + 1
  /\ UNCHANGED << impl, exitCode, attempts, schemaRan, listened, ending,
                  signals, idle, broken, backendVars, store, storeVars, req,
                  nreq >>

\* the server executes CREATE TABLE IF NOT EXISTS offboarding (...)
SchemaExecuted ==
  /\ Alive /\ impl = "part_000" /\ phase = "schema" /\ store = "up"
  /\ phase' = "created"
  /\ table' = TRUE
  /\ UNCHANGED << impl, exitCode, startVars, ending, signals, total, idle,
                  broken, backendVars, store, rows, seq, clock, req, nreq >>

\* await pool.query(createTableQuery) resolves; return true; app.listen(...)
\* The locals of connectWithRetry are gone by now: its counters are cleared.
SchemaCreated ==
  /\ Alive /\ impl = "part_000" /\ phase = "created" /\ store = "up"
  /\ IF ending THEN UNCHANGED startVars
     ELSE /\ attempts' = 0 /\ tried' = 0 /\ waited' = 0
          /\ listened' = TRUE
          /\ UNCHANGED schemaRan
  /\ IF ending
     THEN total' = total - 1 /\ Exit(0) /\ UNCHANGED idle
     ELSE /\ idle' = idle + 1
          /\ phase' = "serving"
          /\ UNCHANGED << total, exitCode >>
  /\ UNCHANGED << impl, ending, signals, broken, backendVars, store,
                  storeVars, req, nreq >>

\* await pool.query(createTableQuery) rejects: catch, process.exit(1).
\* The query has no timeout: a silent server leaves it pending.
SchemaFails ==
  /\ Alive /\ impl = "part_000" /\ phase = "lost"
  /\ total' = total - 1
  /\ IF ending THEN Exit(0) ELSE Exit(1)
  /\ UNCHANGED << impl, startVars, ending, signals, idle, broken, backendVars,
                  store, storeVars, req, nreq >>

(***************************************************************************)
(* process.on('SIGTERM') / process.on('SIGINT') of part_000:               *)
(* pool.end(() => process.exit(0)).  The listener is not closed.  A second *)
(* pool.end calls its callback at once, with an error the callback ignores.*)
(***************************************************************************)
Signal ==
  /\ impl = "part_000" /\ Alive /\ signals < 2
  /\ signals' = signals + 1
  /\ ending' = TRUE
  /\ IF ending
     THEN Exit(0) /\ UNCHANGED << total, idle, broken >>
     ELSE /\ idle' = 0
          /\ broken' = 0
          /\ total' = total - idle
          /\ IF total - idle = 0 THEN Exit(0) ELSE UNCHANGED << phase, exitCode >>
  /\ UNCHANGED << impl, startVars, backendVars, store, storeVars, req, nreq >>

(***************************************************************************)
(* Environment: the database server and the pool's idle timer.             *)
(***************************************************************************)
\* a statement whose connection broke: what it returned is lost, what it
\* did to the table stays
Lost(q) ==
  [q EXCEPT !.pc = "result",
            !.res = [q.res EXCEPT !.code = "08006", !.id = 0, !.out = <<>>]]

\* The server stops and refuses connections from now on; it closes the
\* connections it holds.  The statements out on them fail, the idle clients
\* of the pool are broken.
StoreStops ==
  /\ Alive /\ store \in {"up", "hung"}
  /\ store' = "down"
  /\ broken' = idle
  /\ req' = [r \in Slots |-> IF req[r].pc \in {"querying", "result"}
                              THEN Lost(req[r]) ELSE req[r]]
  /\ phase' = IF phase \in {"schema", "created"} THEN "lost" ELSE phase
  /\ bSchema' = IF bSchema \in {"querying", "executed"} THEN "lost" ELSE bSchema
  /\ UNCHANGED << impl, exitCode, startVars, ending, signals, total, idle,
                  bConn, storeVars, nreq >>

\* the server stops answering, without closing anything
StoreHangs ==
  /\ Alive /\ store = "up"
  /\ store' = "hung"
  /\ UNCHANGED << impl, phase, exitCode, startVars, ending, signals, total,
                  idle, broken, backendVars, storeVars, req, nreq >>

\* the server is back; the table is on a volume and keeps its rows
StoreRecovers ==
  /\ Alive /\ store # "up"
  /\ store' = "up"
  /\ UNCHANGED << impl, phase, exitCode, startVars, ending, signals, total,
                  idle, broken, backendVars, storeVars, req, nreq >>

\* A broken idle client emits 'error': the pool removes it and emits 'error'
\* itself.  Neither server listens for it (no pool.on('error')), so the event
\* is an uncaught exception and the process ends with code 1.
IdleClientError ==
  /\ Alive /\ broken > 0
  /\ broken' = broken - 1
  /\ idle' = idle - 1
  /\ total' = total - 1
  /\ Exit(1)
  /\ UNCHANGED << impl, startVars, ending, signals, backendVars, store,
                  storeVars, req, nreq >>

\* idleTimeoutMillis (30000 in part_000, the pool's default of 10000 in
\* server.js): an idle client, broken or not, is closed and removed
IdleTimeout ==
  /\ Alive /\ idle > 0
  /\ idle' = idle - 1
  /\ total' = total - 1
  /\ \E k \in {0, 1} :
       /\ k <= broken
       /\ k = 0 => idle > broken
       /\ broken' = broken - k
  /\ UNCHANGED << impl, phase, exitCode, startVars, ending, signals,
                  backendVars, store, storeVars, req, nreq >>

(***************************************************************************)
(* Request handlers.  A handler runs in steps: the synchronous part up to  *)
(* pool.query (Receive), the pool obtaining a connection, the statement    *)
(* executing on the server, and the continuation after await (Deliver).    *)
(***************************************************************************)
Done(r, resp) == req' = [req EXCEPT ![r].pc = "done", ![r].resp = resp]

Arrived(kind, b) ==
  [FreeSlot EXCEPT !.kind = kind, !.b = b, !.late = ending,
                   !.before = IF kind = "health" THEN {} ELSE Answered201]

\* a request answered inside its handler's first step
AnswerAtOnce(kind, b, resp) ==
  /\ OtherSlotFree
  /\ req' = [req EXCEPT ![0] = [Arrived(kind, b) EXCEPT !.pc = "done", !.resp = resp]]
  /\ UNCHANGED << total, idle, broken, nreq >>

\* pool.query: the statement goes out on the idle client released last
\* (this._idle.pop()), or a client is created for it.  The clients released
\* since the server stopped are newer than the broken ones; on a broken
\* client the statement fails.  The pool queues a request once it holds
\* PoolLimit clients, which the requests of one run never reach.
PoolLimit == IF impl = "part_000" THEN PoolMax ELSE DefaultPoolMax

Dispatch(r, kind, b) ==
  IF idle > broken
  THEN /\ req' = [req EXCEPT ![r] = [Arrived(kind, b) EXCEPT !.pc = "querying",
                                                            !.stmts = 1]]
       /\ idle' = idle - 1
       /\ UNCHANGED << total, broken >>
  ELSE IF idle > 0
  THEN /\ req' = [req EXCEPT ![r] = Lost([Arrived(kind, b) EXCEPT !.stmts = 1])]
       /\ idle' = idle - 1
       /\ broken' = broken - 1
       /\ UNCHANGED total
  ELSE /\ total < PoolLimit
       /\ req' = [req EXCEPT ![r] = [Arrived(kind, b) EXCEPT !.pc = "connecting"]]
       /\ total' = total + 1
       /\ UNCHANGED << idle, broken >>

\* app.get('/api/health')
Health ==
  /\ Alive /\ impl = "part_000" /\ phase = "serving"
  /\ AnswerAtOnce("health", 0, HealthResponse)
  /\ UNCHANGED << impl, phase, exitCode, startVars, ending, signals,
                  backendVars, store, storeVars >>

\* app.post('/api/offboarding/submit') up to pool.query.  A body that is
\* not JSON (b = 0) fails in express.json() and goes to the error-handling
\* middleware.  pool.query on an ending pool rejects at once.
Submit(b) ==
  /\ Alive /\ phase = "serving"
  /\ IF b = 0
     THEN AnswerAtOnce("submit", b, MiddlewareResponse("Unexpected end of JSON input"))
     ELSE IF BodyError[b] # ""
     THEN AnswerAtOnce("submit", b, ValidationResponse(BodyError[b]))
     ELSE IF ending
     THEN AnswerAtOnce("submit", b, StoreErrorResponse)
     ELSE /\ nreq + 1 \in InsertSlots
          /\ nreq' = nreq + 1
          /\ Dispatch(nreq + 1, "submit", b)
  /\ UNCHANGED << impl, phase, exitCode, startVars, ending, signals,
                  backendVars, store, storeVars >>

\* app.get('/api/offboarding') up to pool.query
List ==
  /\ Alive /\ phase = "serving"
  /\ IF ending
     THEN AnswerAtOnce("list", 0, StoreErrorResponse)
     ELSE /\ OtherSlotFree
          /\ Dispatch(0, "list", 0)
          /\ UNCHANGED nreq
  /\ UNCHANGED << impl, phase, exitCode, startVars, ending, signals,
                  backendVars, store, storeVars >>

\* the new client connects and the statement is sent on it
ClientConnected(r) ==
  /\ Alive /\ req[r].pc = "connecting" /\ store = "up"
  /\ req' = [req EXCEPT ![r].pc = "querying", ![r].stmts = req[r].stmts + 1]
  /\ UNCHANGED << impl, phase, exitCode, startVars, ending, signals, total,
                  idle, broken, backendVars, store, storeVars, nreq >>

\* the new client fails to connect: pool.query rejects, the catch answers
ClientConnectFails(r) ==
  /\ Alive /\ req[r].pc = "connecting" /\ ConnectCanFail
  /\ total' = total - 1
  /\ IF ending /\ total - 1 = 0
     THEN Exit(0) /\ UNCHANGED req
     ELSE Done(r, StoreErrorResponse) /\ UNCHANGED << phase, exitCode >>
  /\ UNCHANGED << impl, startVars, ending, signals, idle, broken, backendVars,
                  store, storeVars, nreq >>

\* the server executes the INSERT; adv tells whether its clock has moved
\* since the last row was stored
ExecuteInsert(r, adv) ==
  /\ Alive /\ req[r].pc = "querying" /\ req[r].kind = "submit" /\ store = "up"
  /\ \E code \in { BodyCode[req[r].b][table]
                                [UniqueViolation(rows, BodyValues[req[r].b])] } :
     \E now \in { IF code = "00000" THEN clock + adv ELSE clock } :
        /\ clock' = now
        /\ rows' = RowsAfterInsert(rows, code, seq, BodyColumns[req[r].b], now)
        /\ seq' = SerialAfter(seq, code, BodyBind[req[r].b])
        /\ req' = [req EXCEPT ![r].pc = "result",
                     ![r].res = [NoRes EXCEPT !.code = code,
                                   !.id = IF code = "00000" THEN seq + 1 ELSE 0,
                                   !.added = Len(rows') - Len(rows)]]
  /\ UNCHANGED << impl, phase, exitCode, startVars, ending, signals, total,
                  idle, broken, backendVars, store, table, nreq >>

\* the server executes the SELECT
ExecuteSelect(r) ==
  /\ Alive /\ req[r].pc = "querying" /\ req[r].kind = "list" /\ store = "up"
  /\ IF table
     THEN \E out \in SelectResults(rows, impl) :
            req' = [req EXCEPT ![r].pc = "result",
                      ![r].res = [NoRes EXCEPT !.code = "00000", !.out = out]]
     ELSE req' = [req EXCEPT ![r].pc = "result", ![r].res.code = "42P01"]
  /\ UNCHANGED << impl, phase, exitCode, startVars, ending, signals, total,
                  idle, broken, backendVars, store, storeVars, nreq >>

\* the result reaches pool.query, from a server that is up or as the error
\* of a broken connection: client.release(err), then the handler's
\* continuation answers
Deliver(r) ==
  /\ Alive /\ req[r].pc = "result"
  /\ store = "up" \/ req[r].res.code = "08006"
  /\ LET failed == req[r].res.code # "00000"
         removed == failed \/ ending
         resp == IF req[r].kind = "submit" THEN SubmitResponse(req[r].res)
                 ELSE ListResponse(req[r].res)
     IN /\ total' = IF removed THEN total - 1 ELSE total
        /\ idle' = IF removed THEN idle ELSE idle + 1
        /\ IF ending /\ total - 1 = 0
           THEN Exit(0) /\ UNCHANGED req
           ELSE Done(r, resp) /\ UNCHANGED << phase, exitCode >>
  /\ UNCHANGED << impl, startVars, ending, signals, broken, backendVars, store,
                  storeVars, nreq >>

\* the answer in slot 0 has been observed
Forget ==
  /\ Observed
  /\ req' = [req EXCEPT ![0] = FreeSlot]
  /\ UNCHANGED << impl, phase, exitCode, startVars, ending, signals, total,
                  idle, broken, backendVars, store, storeVars, nreq >>

(***************************************************************************)
(* Startup of server.js.  The module body starts pool.connect(callback),   *)
(* starts pool.query(createTableQuery) and calls app.listen, one after the *)
(* other, without waiting: each pool call creates a client of its own.     *)
(***************************************************************************)
BLoad ==
  /\ Alive /\ impl = "server.js" /\ phase = "load"
  /\ bConn' = "pending"
  /\ bSchema' = "connecting"
  /\ total' = total + 2
  /\ phase' = "serving"
  /\ listened' = TRUE
  /\ UNCHANGED << impl, exitCode, attempts, tried, waited, schemaRan, ending,
                  signals, idle, broken, store, storeVars, req, nreq >>

\* pool.connect((err, client, release) => { ... release(); })
BConnectSucceeds ==
  /\ Alive /\ impl = "server.js" /\ bConn = "pending" /\ store = "up"
  /\ bConn' = "ok"
  /\ idle' = idle + 1
  /\ UNCHANGED << impl, phase, exitCode, startVars, ending, signals, total,
                  broken, bSchema, store, storeVars, req, nreq >>

\* if (err) { ...; process.exit(1); }
BConnectFails ==
  /\ Alive /\ impl = "server.js" /\ bConn = "pending" /\ ConnectCanFail
  /\ total' = total - 1
  /\ Exit(1)
  /\ UNCHANGED << impl, startVars, ending, signals, idle, broken, backendVars,
                  store, storeVars, req, nreq >>

\* the client of pool.query(createTableQuery) connects
BSchemaConnected ==
  /\ Alive /\ impl = "server.js" /\ bSchema = "connecting" /\ store = "up"
  /\ bSchema' = "querying"
  /\ UNCHANGED << impl, phase, exitCode, startVars, ending, signals, total,
                  idle, broken, bConn, store, storeVars, req, nreq >>

\* the server executes CREATE TABLE IF NOT EXISTS offboarding (...)
BSchemaExecuted ==
  /\ Alive /\ impl = "server.js" /\ bSchema = "querying" /\ store = "up"
  /\ bSchema' = "executed"
  /\ table' = TRUE
  /\ UNCHANGED << impl, phase, exitCode, startVars, ending, signals, total,
                  idle, broken, bConn, store, rows, seq, clock, req, nreq >>

\* .then(() => console.log('Offboarding table created or already exists'))
BSchemaCreated ==
  /\ Alive /\ impl = "server.js" /\ bSchema = "executed" /\ store = "up"
  /\ bSchema' = "ok"
  /\ idle' = idle + 1
  /\ UNCHANGED << impl, phase, exitCode, startVars, ending, signals, total,
                  broken, bConn, store, storeVars, req, nreq >>

\* .catch(err => { ...; process.exit(1); })
BSchemaFails ==
  /\ Alive /\ impl = "server.js"
  /\ \/ bSchema = "connecting" /\ ConnectCanFail
     \/ bSchema = "lost"
  /\ total' = total - 1
  /\ Exit(1)
  /\ UNCHANGED << impl, startVars, ending, signals, idle, broken, backendVars,
                  store, storeVars, req, nreq >>

(***************************************************************************)
(* Specifications.                                                         *)
(***************************************************************************)
StartupStep ==
  \/ ConnectSucceeds \/ ConnectFails \/ RetryDelayElapsed
  \/ SchemaExecuted \/ SchemaCreated \/ SchemaFails

RequestStep(r) ==
  \/ ClientConnected(r) \/ ClientConnectFails(r)
  \/ (\E adv \in {0, 1} : ExecuteInsert(r, adv)) \/ ExecuteSelect(r)
  \/ Deliver(r)

\* part_000 with all its endpoints and its signal handlers
Next ==
  \/ ConnectSucceeds
  \/ ConnectFails
  \/ RetryDelayElapsed
  \/ SchemaExecuted
  \/ SchemaCreated
  \/ SchemaFails
  \/ Signal
  \/ StoreStops
  \/ IdleClientError
  \/ StoreHangs
  \/ StoreRecovers
  \/ IdleTimeout
  \/ Health
  \/ \E b \in 0..Len(Bodies) : Submit(b)
  \/ List
  \/ \E r \in Slots : ClientConnected(r)
  \/ \E r \in Slots : ClientConnectFails(r)
  \/ \E r \in Slots : \E adv \in {0, 1} : ExecuteInsert(r, adv)
  \/ \E r \in Slots : ExecuteSelect(r)
  \/ \E r \in Slots : Deliver(r)
  \/ Forget

Spec == Init /\ [][Next]_vars

\* The steps of the program itself are taken: a promise that can settle
\* settles, a timer fires, whatever other requests arrive meanwhile (the
\* step of a request is not put off for ever by answers to other requests
\* being looked at: strong fairness).  A database server that is up
\* connects, executes and answers; nothing is assumed about it staying up,
\* and a silent server may keep a statement waiting for ever.
Fairness ==
  /\ WF_vars(StartupStep)
  /\ WF_vars(Forget)
  /\ \A r \in Slots : SF_vars(RequestStep(r))

\* part_000 receiving submissions and list requests, with a database
\* server that may stop answering and no signal
PendingNext ==
  \/ ConnectSucceeds
  \/ ConnectFails
  \/ RetryDelayElapsed
  \/ SchemaExecuted
  \/ SchemaCreated
  \/ StoreHangs
  \/ IdleTimeout
  \/ \E b \in {1, 4} : Submit(b)
  \/ List
  \/ \E r \in Slots : ClientConnected(r)
  \/ \E r \in Slots : ClientConnectFails(r)
  \/ \E r \in Slots : \E adv \in {1} : ExecuteInsert(r, adv)
  \/ \E r \in Slots : ExecuteSelect(r)
  \/ \E r \in Slots : Deliver(r)
  \/ Forget

PendingSpec == Init /\ [][PendingNext]_vars /\ Fairness

\* part_000 receiving submissions only, with a database server that may
\* stop and come back
SubmitNext ==
  \/ ConnectSucceeds
  \/ ConnectFails
  \/ RetryDelayElapsed
  \/ SchemaExecuted
  \/ SchemaCreated
  \/ SchemaFails
  \/ StoreStops
  \/ IdleClientError
  \/ StoreRecovers
  \/ IdleTimeout
  \/ \E b \in 1..5 : Submit(b)
  \/ \E r \in Slots : ClientConnected(r)
  \/ \E r \in Slots : ClientConnectFails(r)
  \/ \E r \in Slots : \E adv \in {1} : ExecuteInsert(r, adv)
  \/ \E r \in Slots : Deliver(r)
  \/ Forget

SubmitSpec == Init /\ [][SubmitNext]_vars

\* part_000 receiving list requests and submissions that pass the
\* validator and fit the table, with a database server that, once
\* reachable, stays reachable
ListNext ==
  \/ ConnectSucceeds
  \/ ConnectFails
  \/ RetryDelayElapsed
  \/ SchemaExecuted
  \/ SchemaCreated
  \/ StoreRecovers
  \/ IdleTimeout
  \/ \E b \in {1, 2} : Submit(b)
  \/ List
  \/ \E r \in Slots : ClientConnected(r)
  \/ \E r \in Slots : \E adv \in {0, 1} : ExecuteInsert(r, adv)
  \/ \E r \in Slots : ExecuteSelect(r)
  \/ \E r \in Slots : Deliver(r)
  \/ Forget

ListSpec == Init /\ [][ListNext]_vars

\* part_000 starting up, with health checks once it listens
StartupNext ==
  \/ ConnectSucceeds
  \/ ConnectFails
  \/ RetryDelayElapsed
  \/ SchemaExecuted
  \/ SchemaCreated
  \/ SchemaFails
  \/ Signal
  \/ StoreStops
  \/ IdleClientError
  \/ StoreHangs
  \/ StoreRecovers
  \/ IdleTimeout
  \/ Health
  \/ Forget

StartupSpec == Init /\ [][StartupNext]_vars /\ WF_vars(StartupStep)

\* server.js
BackendNext ==
  \/ BLoad
  \/ BConnectSucceeds
  \/ BConnectFails
  \/ BSchemaConnected
  \/ BSchemaExecuted
  \/ BSchemaCreated
  \/ BSchemaFails
  \/ IdleTimeout
  \/ StoreStops
  \/ IdleClientError
  \/ StoreHangs
  \/ StoreRecovers
  \/ \E b \in {0, 1, 4} : Submit(b)
  \/ List
  \/ \E r \in Slots : ClientConnected(r)
  \/ \E r \in Slots : ClientConnectFails(r)
  \/ \E r \in Slots : \E adv \in {1} : ExecuteInsert(r, adv)
  \/ \E r \in Slots : ExecuteSelect(r)
  \/ \E r \in Slots : Deliver(r)
  \/ Forget

BackendSpec == BackendInit /\ [][BackendNext]_vars

(***************************************************************************)
(* The rules of the validator as the specification states them (section    *)
(* 4.1): a text field is a string of the stated shape, finalSalary and     *)
(* bonus parse as numbers within their ranges.  null, the empty string, a  *)
(* boolean and an absent field do not parse as a number.                   *)
(***************************************************************************)
IsText(v) == v.t = "string" /\ Len(v.s) > 0

ParsesAsNumber(v) ==
  \/ v.t = "number"
  \/ v.t = "string" /\ Len(Trim(v.s)) > 0 /\ ~StringToNumber(v.s).nan

InRange(v, lo, hi) == ParsesAsNumber(v) /\ ~JsLess(v, lo) /\ ~JsGreater(v, hi)

HasLetter(s) == \E i \in 1..Len(s) : s[i] \in Letter

RuleViolated(b) ==
  IF ~(IsText(b.empName) /\ NamePattern(b.empName.s)) THEN "Invalid employee name"
  ELSE IF ~(IsText(b.position) /\ PositionPattern(b.position.s)) THEN "Invalid position"
  ELSE IF ~(IsText(b.department) /\ b.department.s \in Departments) THEN "Invalid department"
  ELSE IF ~(IsText(b.empId) /\ EmpIdPattern(b.empId.s)) THEN "Invalid employee ID"
  ELSE IF ~(IsText(b.feedback) /\ Len(b.feedback.s) <= FeedbackMax /\ HasLetter(b.feedback.s))
       THEN "Invalid feedback"
  ELSE IF ~(IsText(b.acknowledgment) /\ Len(b.acknowledgment.s) <= AckMax
            /\ HasLetter(b.acknowledgment.s))
       THEN "Invalid acknowledgment"
  ELSE IF ~InRange(b.finalSalary, SalaryMin, SalaryMax) THEN "Invalid final salary"
  ELSE IF ~InRange(b.bonus, BonusMin, BonusMax) THEN "Invalid bonus amount"
  ELSE ""

BodyRule == Eval(LAMBDA bs : [b \in 1..Len(bs) |-> RuleViolated(bs[b])], Bodies)

\* the submissions that issued an INSERT and satisfy every rule
RuleMeeting == { r \in InsertSlots : req[r].pc # "free" /\ BodyRule[req[r].b] = "" }
Answered(r) == req[r].pc = "done"
EmpIdOf(r) == Bodies[req[r].b].empId.s
ListedEmpIds(out) == { out[i].empId : i \in 1..Len(out) }
IndexOf(out, e) == CHOOSE i \in 1..Len(out) : out[i].empId = e
OneRowPerEmpId ==
  \A i \in 1..Len(rows) : \A j \in 1..Len(rows) :
     i # j => rows[i].employee_id # rows[j].employee_id
\* slot 0 shows the answer to a list request
ListAnswered == req[0].kind = "list" /\ req[0].pc = "done"

\* the submissions that issued an INSERT the table takes when no row with
\* their empId is stored: every value fits its column
Fitting ==
  { r \in InsertSlots : req[r].pc # "free" /\ BodyCode[req[r].b][TRUE][FALSE] = "00000" }
\* the submissions that issued an INSERT with the empId of r
SameEmpId(r) ==
  { q \in InsertSlots : req[q].pc # "free" /\ EmpIdOf(q) = EmpIdOf(r) }

\* and is answered 400 with the error of the first rule it violates, the
\* table being left as it was.
C2_Claim ==
  \A r \in Slots :
    (req[r].kind = "submit" /\ req[r].b # 0 /\ BodyRule[req[r].b] # "") =>
       /\ req[r].stmts = 0
       /\ req[r].res.added = 0
       /\ Answered(r) => /\ req[r].resp.status = 400
                         /\ req[r].resp.error = BodyRule[req[r].b]

(***************************************************************************)
(* C3                                                                      *)
(***************************************************************************)
\* C3: a submission that meets every rule, whose INSERT ran on a reachable
\* server and found no row with its empId, is answered 201 with an id
\* greater than the id of every row stored before its own; and a list
\* answer holds the record of every submission answered 201 before the
\* list request was received.
C3_Claim ==
  /\ \A r \in RuleMeeting :
       (Answered(r) /\ req[r].res.code \notin {"", "23505", "08006"}) =>
          /\ req[r].resp.status = 201
          /\ \E i \in 1..Len(rows) :
                /\ rows[i].id = req[r].resp.id
                /\ \A j \in 1..(i-1) : rows[j].id < rows[i].id
  /\ (ListAnswered /\ req[0].resp.status = 200) =>
        \A r \in req[0].before : EmpIdOf(r) \in ListedEmpIds(req[0].resp.rows)

(***************************************************************************)
(* C4                                                                      *)
(***************************************************************************)
\* C4: a list request is answered 200, on an empty table with the empty
\* array; the answer holds exactly as many records as submissions were
\* answered 201, and when A was answered 201 before B was received, B's
\* record comes before A's.
C4_Claim ==
  (ListAnswered /\ req[0].resp.status = 200) =>
     LET out == req[0].resp.rows IN
       /\ (InFlight = {} /\ req[0].before = Answered201) =>
             Len(out) = Cardinality(Answered201)
       /\ \A a \in InsertSlots : \A b \in InsertSlots :
             ( /\ req[a].resp.status = 201 /\ req[b].resp.status = 201
               /\ a \in req[b].before
               /\ EmpIdOf(a) \in ListedEmpIds(out)
               /\ EmpIdOf(b) \in ListedEmpIds(out) )
             => IndexOf(out, EmpIdOf(b)) < IndexOf(out, EmpIdOf(a))
       /\ rows = <<>> => out = <<>>

(***************************************************************************)
(* C5                                                                      *)
(***************************************************************************)
\* the process has exited with code 1 before its startup was complete
StartupFailed ==
  /\ phase = "exited" /\ exitCode = 1
  /\ IF impl = "part_000" THEN ~listened ELSE bConn # "ok" \/ bSchema # "ok"

\* C5: the service listens only once the startup connection has succeeded
\* and the table has been created, and a process that exits on a startup
\* failure has taken no request.
C5_Claim ==
  /\ phase = "serving" =>
        /\ table
        /\ impl = "server.js" => (bConn = "ok" /\ bSchema = "ok")
  /\ StartupFailed => (nreq = 0 /\ req[0].pc = "free")

(***************************************************************************)
(* C6                                                                      *)
(***************************************************************************)
\* C6: no request is accepted after a termination signal, and a process
\* that was sent a signal does not exit while a request accepted before the
\* signal is unanswered.
C6_Claim ==
  /\ \A r \in Slots : ~req[r].late
  /\ (phase = "exited" /\ ending) => \A r \in Slots : req[r].pc \in {"free", "done"}

(***************************************************************************)
(* C7                                                                      *)
(***************************************************************************)
\* C7: a health answer says 'connected' exactly when the database server
\* is reachable at the time of the request.
C7_Claim ==
  (req[0].kind = "health" /\ req[0].pc = "done") =>
     /\ req[0].resp.database = "connected" <=> req[0].resp.reachable
     /\ req[0].stmts = 0

(***************************************************************************)
(* C8                                                                      *)
(***************************************************************************)
\* C8: unless the service is told to stop, every request waiting for the
\* pool or for the database server is eventually answered; and a request
\* sends at most one statement.
C8_Claim ==
  /\ \A r \in Slots :
        (req[r].pc \in {"connecting", "querying", "result"})
           ~> (req[r].pc = "done" \/ ending)
  /\ [](\A r \in Slots : req[r].stmts <= 1)

(***************************************************************************)
(* C9                                                                      *)
(***************************************************************************)
\* C9: an answer that reports neither success, a validation failure nor a
\* duplicate has status 500, and a 500 answer carries the error 'Internal
\* server error' and nothing of the underlying error.
C9_Claim ==
  \A r \in Slots : Answered(r) =>
     /\ req[r].resp.status \notin {200, 201, 400, 409} => req[r].resp.status = 500
     /\ req[r].resp.status = 500 =>
           /\ req[r].resp.error = "Internal server error"
           /\ req[r].resp.message = ""

(***************************************************************************)
(* C10                                                                     *)
(***************************************************************************)
C10_Counts ==
  /\ tried <= MaxAttempts /\ attempts <= MaxAttempts
  /\ phase = "connecting" => (tried = attempts + 1 /\ waited = attempts)
  /\ phase = "delay" => (tried = attempts /\ waited = attempts - 1)
  /\ phase \in {"schema", "created", "lost"} =>
        /\ tried = attempts + 1 /\ waited = attempts
        /\ attempts < MaxAttempts
        /\ schemaRan /\ total = 1 /\ idle = 0
  /\ attempts = MaxAttempts <=> (exitCode = 1 /\ ~schemaRan)
  /\ attempts = MaxAttempts =>
        /\ phase = "exited" /\ tried = MaxAttempts /\ waited = MaxAttempts - 1
        /\ ~table /\ total = 0

\* C10: connectWithRetry makes at most maxAttempts attempts, one delay
\* after each failed attempt but the last; it returns at the first attempt
\* that succeeds, the client released and reused by the schema query; the
\* process exits with code 1 before any schema query exactly when all
\* maxAttempts attempts have failed; and the retry loop always ends.
C10_Theorem ==
  /\ []C10_Counts
  /\ <>(phase \notin {"connecting", "delay"})

\* all attempts failed: exit code 1 after maxAttempts attempts
C10_Witness ==
  /\ phase = "exited" /\ exitCode = 1
  /\ attempts = MaxAttempts /\ tried = MaxAttempts /\ waited = MaxAttempts - 1
  /\ ~schemaRan

====
